---- MODULE Spec2Model ----
(***************************************************************************)
(* homebridge-power-lock: the per-lock state controller.                   *)
(*                                                                         *)
(* The repository holds two controllers: the TypeScript PowerLockAccessory *)
(* of src/src/index.ts ("ts") and the JavaScript PowerLockAccessory of     *)
(* src/unnamed/part_000 ("js").  One controller instance is modelled       *)
(* together with the part of the Node.js event loop that belongs to it:    *)
(* the pending timers, the child processes whose completion it awaits and  *)
(* the callbacks that only log.  Time is not modelled: a pending timer may *)
(* fire at any moment, and a timer is identified by the step that armed    *)
(* it.                                                                     *)
(***************************************************************************)
EXTENDS Integers, FiniteSets, Sequences, TLC

VARIABLE w
    \* One record: the controller's fields, the host's view of it, the
    \* event loop's pending work, and the observation fields (see Fresh).

vars == <<w>>

-----------------------------------------------------------------------------
(* Bounds *)

\* How many external inputs (user requests, bus messages, poll results,
\* configure / cleanup / shutdown calls) a run may contain.
MaxInputs == 3

\* How many monitor/poll commands may be running at the same time.
MaxPollInflight == 1

-----------------------------------------------------------------------------
(* Values *)

\* The value of a timer handle field that holds no timer (undefined in the
\* TypeScript class, null in the JavaScript one).
NoTimer == 0

\* lockDelay / unlockDelay in seconds: absent (0) or the README's example.
DelayValues == {0, 5}

\* Payloads a bus message may carry: the configured open literal, the
\* configured close literal, the open literal in another case, anything
\* else.
BusPayloads == {"open", "close", "OPEN", "other"}

\* Trimmed, case-normalised outputs of the monitor / poll command.
PollOutputs == {"open", "unsecured", "closed", "secured", "other"}

\* Target values a user can request: TRUE is SECURED, FALSE is UNSECURED.
Requests == BOOLEAN

Dir(b) == IF b THEN "lock" ELSE "unlock"

-----------------------------------------------------------------------------
(* Configurations *)

\* A validated TypeScript LockConfig: validateConfig has accepted it, so in
\* mqtt mode the broker and both topics are set and in command mode the
\* three commands and a positive monitorInterval are set.
TsConfigs ==
    [ mode            : {"mqtt", "command", "dummy"},
      autoLock        : BOOLEAN,
      lockDelay       : DelayValues,
      unlockDelay     : DelayValues,
      mqttBrokerUrl   : {"broker"},
      mqttTopic       : {"topic"},
      cmdPollInterval : {1},
      cmdPollCommand  : {"poll"},
      cmdLockCommand  : {"close"},
      cmdUnlockCommand: {"open"} ]

\* The mode-specific settings a JavaScript lock configuration may carry: the
\* registry only checks lockName, so any of them may be missing.
JsModeSettings ==
    {  [mode |-> "dummy", mqttBrokerUrl |-> "", mqttTopic |-> "",
        cmdPollInterval |-> 0, cmdPollCommand |-> "",
        cmdLockCommand |-> "", cmdUnlockCommand |-> ""],
       [mode |-> "mqtt", mqttBrokerUrl |-> "broker", mqttTopic |-> "topic",
        cmdPollInterval |-> 0, cmdPollCommand |-> "",
        cmdLockCommand |-> "", cmdUnlockCommand |-> ""],
       [mode |-> "mqtt", mqttBrokerUrl |-> "", mqttTopic |-> "topic",
        cmdPollInterval |-> 0, cmdPollCommand |-> "",
        cmdLockCommand |-> "", cmdUnlockCommand |-> ""],
       [mode |-> "cmd", mqttBrokerUrl |-> "", mqttTopic |-> "",
        cmdPollInterval |-> 1, cmdPollCommand |-> "poll",
        cmdLockCommand |-> "close", cmdUnlockCommand |-> "open"],
       [mode |-> "cmd", mqttBrokerUrl |-> "", mqttTopic |-> "",
        cmdPollInterval |-> 0, cmdPollCommand |-> "poll",
        cmdLockCommand |-> "close", cmdUnlockCommand |-> "open"],
       [mode |-> "cmd", mqttBrokerUrl |-> "", mqttTopic |-> "",
        cmdPollInterval |-> -1, cmdPollCommand |-> "poll",
        cmdLockCommand |-> "close", cmdUnlockCommand |-> "open"],
       [mode |-> "cmd", mqttBrokerUrl |-> "", mqttTopic |-> "",
        cmdPollInterval |-> 1, cmdPollCommand |-> "poll",
        cmdLockCommand |-> "", cmdUnlockCommand |-> ""] }

JsConfigs ==
    { [ mode |-> m.mode, autoLock |-> a, lockDelay |-> ld, unlockDelay |-> ud,
        mqttBrokerUrl |-> m.mqttBrokerUrl, mqttTopic |-> m.mqttTopic,
        cmdPollInterval |-> m.cmdPollInterval,
        cmdPollCommand |-> m.cmdPollCommand,
        cmdLockCommand |-> m.cmdLockCommand,
        cmdUnlockCommand |-> m.cmdUnlockCommand ] :
      m \in JsModeSettings, a \in BOOLEAN,
      ld \in DelayValues, ud \in DelayValues }

-----------------------------------------------------------------------------
(* The event loop and the outside world, as far as one controller sees them *)

\* A timer armed now gets the number of the current step's input as its
\* identity (plus one, so that it differs from NoTimer).
NewId(s) == s.inputs + 1

\* setTimeout / setInterval: a new pending timer of class kind.
setTimeout(s, kind) ==
    [s EXCEPT !.timers = @ \cup {[kind |-> kind, id |-> NewId(s)]}]

\* clearTimeout / clearInterval on the handle field of class kind: the timer
\* it names is no longer pending; a handle that names no pending timer is
\* ignored.
clearTimeout(s, kind, handle) ==
    [s EXCEPT !.timers = {t \in @ : ~(t.kind = kind /\ t.id = handle)}]

Pending(s, kind) == {t \in s.timers : t.kind = kind}

\* The lock / unlock side effect as the outside world sees it.
Effect(s, locked) ==
    IF locked THEN [s EXCEPT !.nLockFx = @ + 1]
              ELSE [s EXCEPT !.nUnlockFx = @ + 1]

\* mqttClient.publish(topic, message, cb): a live client sends the message
\* and calls cb later; a client that has been ended sends nothing and calls
\* cb with an error.
publish(s, locked) ==
    IF s.mqttClient = "live"
    THEN [Effect(s, locked) EXCEPT !.acks = @ + 1]
    ELSE [s EXCEPT !.acks = @ + 1]

\* service.updateCharacteristic on both lock characteristics.
updateCharacteristics(s, current, target) ==
    [s EXCEPT !.hostCurrent = current, !.hostTarget = target, !.wrote = TRUE]

-----------------------------------------------------------------------------
(* TypeScript controller: src/src/index.ts *)

\* executeCommand(command, name): the command is started; TRUE when the
\* returned promise RESOLVES, whether the command succeeded (ok) or its
\* failure was caught and logged.
executeCommandRethrows(ok) == ok

executeCommand(ok) == TRUE

\* The part of executeCommand up to the await: the child process is started
\* and the caller's continuation, updateLockState(locked, autoLock), waits.
startCommand(s, locked, id) ==
    [Effect(s, locked) EXCEPT !.cmds = @ \cup {[locked |-> locked, id |-> id]}]

updateLockState(s, desiredState, triggerAutoLock) ==
    IF desiredState = s.isLocked /\ s.targetState = desiredState
    THEN s
    ELSE
      LET s1 == [updateCharacteristics(s, desiredState, desiredState) EXCEPT
                   !.targetState = desiredState,
                   !.isLocked = desiredState,
                   !.ctxIsLocked = <<desiredState>>,
                   !.ctxTargetState = <<desiredState>>]
          s2 == IF s1.cfg.mode = "mqtt" /\ s1.mqttClient # "none"
                   /\ s1.cfg.mqttTopic # ""
                THEN publish(s1, desiredState)
                ELSE s1
      IN  IF triggerAutoLock /\ s2.cfg.autoLock /\ ~desiredState
          THEN [setTimeout(clearTimeout(s2, "autoLock", s2.autoLockTimeout),
                           "autoLock")
                  EXCEPT !.autoLockTimeout = NewId(s2)]
          ELSE s2

setTargetState(s, desiredState) ==
    IF s.cfg.mode = "command"
    THEN IF desiredState
         THEN IF s.cfg.lockDelay > 0
              THEN [setTimeout(s, "lockDelay") EXCEPT
                      !.lockDelayTimeout = NewId(s)]
              ELSE startCommand(s, TRUE, NewId(s))
         ELSE IF s.cfg.unlockDelay > 0
              THEN [setTimeout(s, "unlockDelay") EXCEPT
                      !.unlockDelayTimeout = NewId(s)]
              ELSE startCommand(s, FALSE, NewId(s))
    ELSE updateLockState(s, desiredState, s.cfg.autoLock)

\* The callbacks setTargetState hands to setTimeout (command mode only).
tsDelayFire(s, t) ==
    startCommand([s EXCEPT !.timers = @ \ {t}], t.kind = "lockDelay", t.id)

\* The continuation after `await this.executeCommand(...)`.
tsCommandDone(s, c, ok) ==
    LET s1 == [s EXCEPT !.cmds = @ \ {c}]
    IN  IF executeCommand(ok)
        THEN updateLockState(s1, c.locked, s1.cfg.autoLock)
        ELSE s1

\* An auto-lock callback that forgets to lock.
tsAutoLockFireIdle(s, t) == [s EXCEPT !.timers = @ \ {t}]

\* The callback updateLockState hands to setTimeout.
tsAutoLockFire(s, t) ==
    updateLockState([s EXCEPT !.timers = @ \ {t}], TRUE, FALSE)

\* A message handler that lets an observed state arm the auto-lock timer.
tsOnMessageArming(s, payload) ==
    IF payload = "open" THEN updateLockState(s, FALSE, TRUE)
    ELSE IF payload = "close" THEN updateLockState(s, TRUE, TRUE)
    ELSE s

\* A message handler that changes the state without saving it in the
\* accessory's context.
tsOnMessageUnsaved(s, payload) ==
    IF payload \in {"open", "close"} /\ s.isLocked # (payload = "close")
    THEN [updateCharacteristics(s, payload = "close", payload = "close")
            EXCEPT !.isLocked = (payload = "close"),
                   !.targetState = (payload = "close")]
    ELSE s

\* A message handler that compares the payload without regard to case.
tsOnMessageIgnoringCase(s, payload) ==
    IF payload \in {"open", "OPEN"} THEN updateLockState(s, FALSE, FALSE)
    ELSE IF payload = "close" THEN updateLockState(s, TRUE, FALSE)
    ELSE s

\* mqttClient.on('message'): the subscribed topic's messages.
tsOnMessage(s, payload) ==
    IF payload = "open" THEN updateLockState(s, FALSE, FALSE)
    ELSE IF payload = "close" THEN updateLockState(s, TRUE, FALSE)
    ELSE s

\* The token table of executeMonitorCommand; "none" is newState = null.
tsMonitorState(output) ==
    IF output \in {"open", "unsecured"} THEN "unlock"
    ELSE IF output \in {"closed", "secured"} THEN "lock"
    ELSE "none"

\* executeMonitorCommand that reads the output of a failed command as well.
executeMonitorCommandUnguarded(s, ok, output) ==
    LET s1 == [s EXCEPT !.polls = @ - 1]
        newState == tsMonitorState(output)
    IN  IF newState # "none" /\ (newState = "lock") # s1.isLocked
        THEN updateLockState(s1, newState = "lock", FALSE)
        ELSE s1

\* executeMonitorCommand after its await: ok is FALSE when execAsync threw.
executeMonitorCommand(s, ok, output) ==
    LET s1 == [s EXCEPT !.polls = @ - 1]
        newState == tsMonitorState(output)
    IN  IF ok /\ newState # "none" /\ (newState = "lock") # s1.isLocked
        THEN updateLockState(s1, newState = "lock", FALSE)
        ELSE s1

\* shutdown(): endThrows is TRUE when mqttClient.end throws.  The call is the
\* first statement and nothing catches, so the function ends there.
shutdown(s, endThrows) ==
    LET s1 == IF s.mqttClient # "none"
              THEN [s EXCEPT !.mqttClient = "ended",
                             !.conns = IF s.mqttClient = "live" THEN @ - 1
                                       ELSE @]
              ELSE s
        s2 == IF s1.pollHandle # NoTimer
              THEN clearTimeout(s1, "poll", s1.pollHandle) ELSE s1
        s3 == IF s2.autoLockTimeout # NoTimer
              THEN clearTimeout(s2, "autoLock", s2.autoLockTimeout) ELSE s2
        s4 == IF s3.lockDelayTimeout # NoTimer
              THEN clearTimeout(s3, "lockDelay", s3.lockDelayTimeout) ELSE s3
    IN  IF endThrows /\ s.mqttClient # "none" THEN s
        ELSE IF s4.unlockDelayTimeout # NoTimer
        THEN clearTimeout(s4, "unlockDelay", s4.unlockDelayTimeout) ELSE s4

\* The fields every controller starts with, before its constructor runs.
Fresh(impl, config) ==
    [ impl |-> impl, cfg |-> config,
      isLocked |-> TRUE, targetState |-> TRUE,
      hostCurrent |-> TRUE, hostTarget |-> TRUE,
      ctxIsLocked |-> <<>>, ctxTargetState |-> <<>>,
      mqttClient |-> "none", pollHandle |-> NoTimer,
      \* the bus connections this controller has opened and not ended
      conns |-> 0,
      lockDelayTimeout |-> NoTimer, unlockDelayTimeout |-> NoTimer,
      autoLockTimeout |-> NoTimer,
      timers |-> {}, cmds |-> {}, polls |-> 0, acks |-> 0,
      \* observation: what has happened, not what the controller stores
      inputs |-> 0, op |-> "constructor", arg |-> "-", wrote |-> FALSE,
      nLockFx |-> 0, nUnlockFx |-> 0,
      wroteName |-> FALSE,
      lastReq |-> [val |-> "none", was |-> "none", at |-> 0,
                   overlap |-> FALSE],
      unlockedBy |-> "none", unlockedAt |-> 0, cleanedAt |-> 0 ]

\* The persisted contexts a TypeScript controller can find: none, or the
\* pair updateLockState wrote (it writes both fields with one value).
TsContexts == {<<>>, <<TRUE>>, <<FALSE>>}

setupMQTT(s) == [s EXCEPT !.mqttClient = "live", !.conns = @ + 1]

setupCommandLine(s) ==
    [setTimeout(s, "poll") EXCEPT !.pollHandle = NewId(s)]

setupMode(s) ==
    IF s.cfg.mode = "mqtt" THEN setupMQTT(s)
    ELSE IF s.cfg.mode = "command" THEN setupCommandLine(s)
    ELSE s

tsConstructor(config, context) ==
    LET s0 == Fresh("ts", config)
        locked == IF context # <<>> THEN context[1] ELSE TRUE
        s1 == [s0 EXCEPT !.ctxIsLocked = context, !.ctxTargetState = context,
                         !.isLocked = locked, !.targetState = locked]
    IN  setupMode(updateCharacteristics(s1, s1.isLocked, s1.targetState))

-----------------------------------------------------------------------------
(* JavaScript controller: src/unnamed/part_000 *)

\* exec(command, cb): the command is started; cb only logs.
exec(s, locked) == [Effect(s, locked) EXCEPT !.acks = @ + 1]

\* An updateHomeKitStates that reports nothing to the host.
updateHomeKitStatesSkipped(s) == s

updateHomeKitStates(s) == updateCharacteristics(s, s.isLocked, s.targetState)

\* A cleanup that reports the state to the host when it is done.
cleanupReporting(s, endThrows) ==
    updateHomeKitStates(
      [s EXCEPT !.timers = {}, !.pollHandle = NoTimer,
                !.autoLockTimeout = NoTimer, !.lockDelayTimeout = NoTimer,
                !.unlockDelayTimeout = NoTimer,
                !.mqttClient = "none", !.conns = 0])

\* cleanup(): endThrows is TRUE when mqttClient.end throws, which the catch
\* around the call ignores.
cleanup(s, endThrows) ==
    LET s1 == IF s.pollHandle # NoTimer
              THEN [clearTimeout(s, "poll", s.pollHandle) EXCEPT
                      !.pollHandle = NoTimer]
              ELSE s
        s2 == IF s1.autoLockTimeout # NoTimer
              THEN [clearTimeout(s1, "autoLock", s1.autoLockTimeout) EXCEPT
                      !.autoLockTimeout = NoTimer]
              ELSE s1
        s3 == IF s2.lockDelayTimeout # NoTimer
              THEN [clearTimeout(s2, "lockDelay", s2.lockDelayTimeout) EXCEPT
                      !.lockDelayTimeout = NoTimer]
              ELSE s2
        s4 == IF s3.unlockDelayTimeout # NoTimer
              THEN [clearTimeout(s3, "unlockDelay", s3.unlockDelayTimeout)
                      EXCEPT !.unlockDelayTimeout = NoTimer]
              ELSE s3
    IN  IF s4.mqttClient # "none"
        THEN [s4 EXCEPT !.mqttClient = "none", !.conns = @ - 1]
        ELSE s4

setupMqtt(s) ==
    IF s.cfg.mqttBrokerUrl = "" \/ s.cfg.mqttTopic = ""
    THEN [s EXCEPT !.cfg.mode = "dummy"]
    ELSE [s EXCEPT !.mqttClient = "live", !.conns = @ + 1]

setupCommandPolling(s) ==
    IF s.cfg.cmdPollCommand = "" \/ s.cfg.cmdPollInterval = 0
    THEN [s EXCEPT !.cfg.mode = "dummy"]
    ELSE [setTimeout(s, "poll") EXCEPT !.pollHandle = NewId(s)]

\* configure without its call of cleanup.
configureWithoutCleanup(s, config) ==
    LET s1 == [s EXCEPT !.cfg = config]
    IN  IF s1.cfg.mode = "mqtt" THEN setupMqtt(s1)
        ELSE IF s1.cfg.mode = "cmd" THEN setupCommandPolling(s1)
        ELSE s1

configure(s, config) ==
    LET s1 == cleanup([s EXCEPT !.cfg = config, !.wroteName = TRUE], FALSE)
    IN  IF s1.cfg.mode = "mqtt" THEN setupMqtt(s1)
        ELSE IF s1.cfg.mode = "cmd" THEN setupCommandPolling(s1)
        ELSE s1

clearLockUnlockDelays(s) ==
    LET s1 == IF s.lockDelayTimeout # NoTimer
              THEN [clearTimeout(s, "lockDelay", s.lockDelayTimeout) EXCEPT
                      !.lockDelayTimeout = NoTimer]
              ELSE s
    IN  IF s1.unlockDelayTimeout # NoTimer
        THEN [clearTimeout(s1, "unlockDelay", s1.unlockDelayTimeout) EXCEPT
                !.unlockDelayTimeout = NoTimer]
        ELSE s1

doLock(s) ==
    LET s1 == IF s.cfg.mode = "mqtt" /\ s.mqttClient # "none"
              THEN publish(s, TRUE) ELSE s
        s2 == IF s1.cfg.mode = "cmd" /\ s1.cfg.cmdLockCommand # ""
              THEN exec(s1, TRUE) ELSE s1
    IN  updateHomeKitStates([s2 EXCEPT !.isLocked = TRUE,
                                       !.targetState = TRUE])

doUnlock(s) ==
    LET s1 == IF s.cfg.mode = "mqtt" /\ s.mqttClient # "none"
              THEN publish(s, FALSE) ELSE s
        s2 == IF s1.cfg.mode = "cmd" /\ s1.cfg.cmdUnlockCommand # ""
              THEN exec(s1, FALSE) ELSE s1
        s3 == updateHomeKitStates([s2 EXCEPT !.isLocked = FALSE,
                                             !.targetState = FALSE])
    IN  IF s3.cfg.autoLock
        THEN [setTimeout(IF s3.autoLockTimeout # NoTimer
                         THEN clearTimeout(s3, "autoLock", s3.autoLockTimeout)
                         ELSE s3, "autoLock")
                EXCEPT !.autoLockTimeout = NewId(s3)]
        ELSE s3

handleTargetStateSet(s, value) ==
    LET s1 == [s EXCEPT !.targetState = value]
    IN  IF value
        THEN IF s1.cfg.lockDelay > 0
             THEN [setTimeout(clearLockUnlockDelays(s1), "lockDelay") EXCEPT
                     !.lockDelayTimeout = NewId(s1)]
             ELSE doLock(s1)
        ELSE IF s1.cfg.unlockDelay > 0
             THEN [setTimeout(clearLockUnlockDelays(s1), "unlockDelay") EXCEPT
                     !.unlockDelayTimeout = NewId(s1)]
             ELSE doUnlock(s1)

\* The callbacks handleTargetStateSet hands to setTimeout.
jsDelayFire(s, t) ==
    LET s1 == [s EXCEPT !.timers = @ \ {t}]
    IN  IF t.kind = "lockDelay" THEN doLock(s1) ELSE doUnlock(s1)

\* The callback doUnlock hands to setTimeout.
jsAutoLockFire(s, t) ==
    doLock([s EXCEPT !.timers = @ \ {t}, !.targetState = TRUE])

\* mqttClient.on('message').
jsOnMessage(s, payload) ==
    IF payload = "open"
    THEN updateHomeKitStates([s EXCEPT !.isLocked = FALSE,
                                       !.targetState = FALSE])
    ELSE IF payload = "close"
    THEN updateHomeKitStates([s EXCEPT !.isLocked = TRUE,
                                       !.targetState = TRUE])
    ELSE s

\* The callback of the poll command's exec: ok is FALSE when exec reported
\* an error.
jsPollDone(s, ok, output) ==
    LET s1 == [s EXCEPT !.polls = @ - 1]
    IN  IF ~ok THEN s1
        ELSE IF output = "open"
        THEN updateHomeKitStates([s1 EXCEPT !.isLocked = FALSE,
                                            !.targetState = FALSE])
        ELSE IF output = "closed"
        THEN updateHomeKitStates([s1 EXCEPT !.isLocked = TRUE,
                                            !.targetState = TRUE])
        ELSE updateHomeKitStates(s1)

jsConstructor(config) ==
    updateHomeKitStates(configure(cleanup(Fresh("js", config), FALSE), config))

-----------------------------------------------------------------------------
(* Steps *)

\* The observation fields at the start of a step: which callback runs, with
\* which argument, and whether it is an external input.
Begin(s, op, arg, isInput) ==
    [s EXCEPT !.op = op, !.arg = arg, !.wrote = FALSE, !.wroteName = FALSE,
              !.inputs = IF isInput THEN @ + 1 ELSE @]

\* The observation fields at the end of a step: which callback made the lock
\* unlocked, and after how many inputs.
Observe(s0, s1) ==
    [s1 EXCEPT !.unlockedBy = IF s1.isLocked THEN "none"
                              ELSE IF s0.isLocked THEN s1.op
                              ELSE @,
               !.unlockedAt = IF s1.isLocked THEN 0
                              ELSE IF s0.isLocked THEN s1.inputs
                              ELSE @]

Init ==
    \/ \E config \in TsConfigs, context \in TsContexts :
         w = tsConstructor(config, context)
    \/ \E config \in JsConfigs :
         w = jsConstructor(config)

\* The host reports a user's write of the target state.
Request(value) ==
    /\ w.inputs < MaxInputs
    /\ LET s == [Begin(w, "request", Dir(value), TRUE) EXCEPT
                   !.lastReq = [val |-> Dir(value), was |-> Dir(w.isLocked),
                               at |-> w.inputs + 1,
                               overlap |-> \E c \in w.cmds :
                                             c.locked # value]]
       IN  w' = Observe(w, IF w.impl = "ts" THEN setTargetState(s, value)
                                            ELSE handleTargetStateSet(s, value))

\* A lock-delay or unlock-delay timer expires.
DelayFire(t) ==
    /\ t \in Pending(w, "lockDelay") \cup Pending(w, "unlockDelay")
    /\ LET s == Begin(w, "delayFire", Dir(t.kind = "lockDelay"), FALSE)
       IN  w' = Observe(w, IF w.impl = "ts" THEN tsDelayFire(s, t)
                                            ELSE jsDelayFire(s, t))

\* The auto-lock timer expires.
AutoLockFire(t) ==
    /\ t \in Pending(w, "autoLock")
    /\ LET s == Begin(w, "autoLockFire", "lock", FALSE)
       IN  w' = Observe(w, IF w.impl = "ts" THEN tsAutoLockFire(s, t)
                                            ELSE jsAutoLockFire(s, t))

\* A lock / unlock command the TypeScript controller awaits ends.
CommandDone(c, ok) ==
    /\ c \in w.cmds
    /\ w' = Observe(w, tsCommandDone(
                         Begin(w, IF ok THEN "commandDone" ELSE "commandFailed",
                               Dir(c.locked), FALSE), c, ok))

\* The poll interval fires: the monitor / poll command is started.
PollTick ==
    /\ Pending(w, "poll") # {}
    /\ w.polls < MaxPollInflight
    /\ w' = [Begin(w, "pollTick", "-", FALSE) EXCEPT !.polls = @ + 1]

\* A running monitor / poll command ends.
PollDone(ok, output) ==
    /\ w.polls > 0
    /\ w.inputs < MaxInputs
    /\ LET s == Begin(w, IF ok THEN "pollDone" ELSE "pollFailed", output, TRUE)
       IN  w' = Observe(w, IF w.impl = "ts"
                           THEN executeMonitorCommand(s, ok, output)
                           ELSE jsPollDone(s, ok, output))

\* The bus delivers a message of the subscribed topic.
Message(payload) ==
    /\ w.mqttClient = "live"
    /\ w.inputs < MaxInputs
    /\ LET s == Begin(w, "message", payload, TRUE)
       IN  w' = Observe(w, IF w.impl = "ts" THEN tsOnMessage(s, payload)
                                            ELSE jsOnMessage(s, payload))

\* The bus client emits 'error' or 'reconnect': the handlers only log (the
\* JavaScript controller has none for 'reconnect').
BusEvent(event) ==
    /\ w.mqttClient = "live"
    /\ w' = Begin(w, event, "-", FALSE)

\* A callback that only logs runs: a publish acknowledgement or error, the
\* end of a command the JavaScript controller started.
Ack(err) ==
    /\ w.acks > 0
    /\ w' = [Begin(w, IF err THEN "ackError" ELSE "ack", "-", FALSE) EXCEPT
               !.acks = @ - 1]

\* The host shuts down: TypeScript shutdown(), JavaScript cleanup().  The
\* end of the bus connection may throw, when there is a connection.
Shutdown(endThrows) ==
    /\ w.inputs < MaxInputs
    /\ endThrows => w.mqttClient # "none"
    /\ LET s == Begin(w, IF endThrows THEN "shutdownThrew" ELSE "shutdown",
                      "-", TRUE)
       IN  w' = Observe(w, IF w.impl = "ts"
                           THEN [shutdown(s, endThrows) EXCEPT
                                   !.cleanedAt = IF endThrows THEN @
                                                 ELSE w.inputs + 1]
                           ELSE [cleanup(s, endThrows) EXCEPT
                                   !.cleanedAt = w.inputs + 1])

\* The registry finds the lock's name again: JavaScript configure().
Configure(config) ==
    /\ w.impl = "js"
    /\ w.inputs < MaxInputs
    /\ LET s == [Begin(w, "configure", "-", TRUE) EXCEPT
                   !.cleanedAt = w.inputs + 1]
       IN  w' = Observe(w, configure(s, config))

Next ==
    \/ \E value \in Requests : Request(value)
    \/ \E t \in w.timers : DelayFire(t)
    \/ \E t \in w.timers : AutoLockFire(t)
    \/ \E c \in w.cmds, ok \in BOOLEAN : CommandDone(c, ok)
    \/ PollTick
    \/ \E ok \in BOOLEAN, output \in PollOutputs : PollDone(ok, output)
    \/ \E payload \in BusPayloads : Message(payload)
    \/ \E event \in {"busError", "busReconnect"} : BusEvent(event)
    \/ \E err \in BOOLEAN : Ack(err)
    \/ \E endThrows \in BOOLEAN : Shutdown(endThrows)
    \/ \E config \in JsConfigs : Configure(config)

Spec == Init /\ [][Next]_vars

\* The event loop runs every timer that stays pending.  Nothing makes a
\* child process end or the outside world send an input.
FairSpec ==
    /\ Spec
    /\ WF_vars(\E t \in w.timers : DelayFire(t))
    /\ WF_vars(\E t \in w.timers : AutoLockFire(t))

-----------------------------------------------------------------------------
(* Vocabulary of the claims *)

\* The step just taken ran the callback op (a stuttering step ran none).
Ran(op) == w'.op = op /\ w' # w

\* The step just taken was a user request.
Requested == Ran("request") /\ w'.inputs = w.inputs + 1

Locked(d) == d = "lock"

\* The side effects of direction d emitted so far.
Fx(s, d) == IF d = "lock" THEN s.nLockFx ELSE s.nUnlockFx

\* The delay configured for direction d, and the timer class it arms.
Delay(s, d) == IF d = "lock" THEN s.cfg.lockDelay ELSE s.cfg.unlockDelay

DelayKind(d) == IF d = "lock" THEN "lockDelay" ELSE "unlockDelay"

Opposite(d) == IF d = "lock" THEN "unlock" ELSE "lock"

\* The controller can emit a side effect for direction d: a bus connection,
\* or a command to run.
HasEffect(s, d) ==
    \/ s.cfg.mode = "mqtt" /\ s.mqttClient = "live"
    \/ s.cfg.mode = "command"
    \/ s.cfg.mode = "cmd" /\ (IF d = "lock" THEN s.cfg.cmdLockCommand
                                           ELSE s.cfg.cmdUnlockCommand) # ""

\* The callbacks through which a user's request changes the lock state: the
\* request handler itself, a delay timer it armed, the end of a command it
\* started.
UserOps == {"request", "delayFire", "commandDone", "commandFailed"}

\* The callbacks that report an observation of the outside world.
ObservationOps == {"message", "pollDone", "pollFailed"}

\* The lock is unlocked because of a user request, and no input has arrived
\* since it became so.
FreshUserUnlock(s) ==
    ~s.isLocked /\ s.unlockedBy \in UserOps /\ s.unlockedAt = s.inputs

-----------------------------------------------------------------------------
(* Claims *)

\* C1: a user request for the value x made while isLocked = targetState = x
\* emits no side effect and writes nothing to the host or the context.
C1_IdempotentRequest ==
    [][ (Requested /\ w.isLocked = Locked(w'.arg) /\ w.targetState = w.isLocked)
        => /\ w'.nLockFx = w.nLockFx
           /\ w'.nUnlockFx = w.nUnlockFx
           /\ ~w'.wrote ]_vars

\* The run so far consists of one input, a user request for d made while
\* the lock was in the other state.
SingleRequest(d) ==
    /\ w.inputs = 1
    /\ w.lastReq = [val |-> d, was |-> Opposite(d), at |-> 1,
                    overlap |-> FALSE]

\* C2: with a delay configured for direction d, after a single user request
\* for d the lock keeps its old state until the delay timer fires, has the
\* new state once the timer has fired, and the side effect of direction d is
\* emitted exactly once.
C2_DelayCorrectness ==
    \A d \in {"lock", "unlock"} :
      (SingleRequest(d) /\ Delay(w, d) > 0) =>
        /\ w.op = "request" => Pending(w, DelayKind(d)) # {}
        /\ Pending(w, DelayKind(d)) # {} =>
             w.isLocked # Locked(d) /\ Fx(w, d) = 0
        /\ (w.op \in {"commandDone", "commandFailed"}
              \/ (w.op = "delayFire" /\ w.cmds = {})) =>
             w.isLocked = Locked(d)
        /\ Fx(w, d) <= 1
        /\ (Pending(w, DelayKind(d)) = {} /\ HasEffect(w, d)) => Fx(w, d) = 1

\* C3: a user request for a value d other than the current state, with a
\* delay configured for d, leaves targetState = d and isLocked unchanged when
\* the handler returns, with the delay timer pending.
C3_ImmediateTargetEcho ==
    \A d \in {"lock", "unlock"} :
      (w.op = "request" /\ w.lastReq.val = d /\ w.lastReq.was = Opposite(d)
         /\ Delay(w, d) > 0) =>
        /\ w.targetState = Locked(d)
        /\ w.isLocked # Locked(d)
        /\ Pending(w, DelayKind(d)) # {}

\* C4: a user request for one direction cancels a pending delay timer of the
\* other direction, whatever delay is configured for the requested one.
C4_DelaySupersession ==
    [][ Requested => Pending(w', DelayKind(Opposite(w'.arg))) = {} ]_vars

\* C5: with autoLock enabled, when the auto-lock timer fires after a
\* user-triggered unlock and no further input, isLocked becomes true and the
\* mode's lock side effect is emitted.
C5_AutoLockFires ==
    [][ (Ran("autoLockFire") /\ w.cfg.autoLock /\ FreshUserUnlock(w))
        => /\ w'.isLocked
           /\ HasEffect(w, "lock") => w'.nLockFx = w.nLockFx + 1 ]_vars

\* The latest user request was an unlock that the handler applies before it
\* returns: no unlock delay, no command to await.
UnlockAppliedAtOnce ==
    /\ w.lastReq.val = "unlock"
    /\ w.cfg.unlockDelay = 0
    /\ ~(w.impl = "ts" /\ w.cfg.mode = "command")

\* C6: a user unlock arriving while the auto-lock timer is pending cancels
\* that timer and arms a fresh one: an auto-lock timer pending after the
\* unlock is the one the unlock armed.
C6_AutoLockRestart ==
    (w.cfg.autoLock /\ UnlockAppliedAtOnce) =>
      \A t \in Pending(w, "autoLock") : t.id = w.lastReq.at + 1

\* C7: a step that applies a bus message or a poll result leaves the
\* auto-lock timer as it was: it neither arms nor re-arms it.
C7_ExternalObservationExclusion ==
    [][ (\E op \in ObservationOps : Ran(op))
        => /\ Pending(w', "autoLock") = Pending(w, "autoLock")
           /\ w'.autoLockTimeout = w.autoLockTimeout ]_vars

\* A bus message has just unlocked a lock that has autoLock enabled, and no
\* auto-lock timer is pending.
C7_Witness ==
    /\ w.cfg.autoLock
    /\ w.op = "message" /\ w.arg = "open"
    /\ ~w.isLocked /\ w.unlockedBy = "message" /\ w.unlockedAt = w.inputs
    /\ Pending(w, "autoLock") = {}

\* The host has been told state d: both characteristics hold it.
HostHas(s, d) == s.hostCurrent = Locked(d) /\ s.hostTarget = Locked(d)

\* The controller's lock state, the host's view of it and the context.
LockView(s) ==
    <<s.isLocked, s.targetState, s.hostCurrent, s.hostTarget,
      s.ctxIsLocked, s.ctxTargetState>>

\* The step just taken emitted a side effect of direction d whose outcome
\* the controller does not await: a publish, a JavaScript exec.
Emitted(d) == Fx(w', d) = Fx(w, d) + 1 /\ w'.acks = w.acks + 1

\* C10: a failed side effect leaves the controller where a successful one
\* leaves it.  The end of a failed lock / unlock command (TypeScript command
\* mode) sets isLocked and targetState to the requested value and the host
\* holds it; a step that publishes, or starts a command without awaiting it,
\* sets the state and writes the host in that same step; and the later
\* report of the failure changes none of it.
C10_OptimisticOnFailure ==
    [][ /\ Ran("commandFailed") =>
             /\ w'.isLocked = Locked(w'.arg)
             /\ w'.targetState = Locked(w'.arg)
             /\ HostHas(w', w'.arg)
        /\ \A d \in {"lock", "unlock"} :
             Emitted(d) =>
               /\ w'.isLocked = Locked(d)
               /\ w'.targetState = Locked(d)
               /\ HostHas(w', d)
               /\ w'.wrote
        /\ Ran("ackError") =>
             LockView(w') = LockView(w) /\ w'.timers = w.timers ]_vars

\* A lock / unlock command has just failed and the step changed the lock to
\* the requested state and told the host.
C10_Witness ==
    /\ w.op = "commandFailed"
    /\ w.isLocked = Locked(w.arg) /\ w.targetState = w.isLocked
    /\ HostHas(w, w.arg)
    /\ w.wrote

RequestedChange == w.op = "request" /\ w.lastReq.val # w.lastReq.was

\* isLocked has the value of the latest user request, or the controller was
\* cleaned up after that request.
ServedOrCleaned ==
    w.isLocked = Locked(w.lastReq.val) \/ w.cleanedAt > w.lastReq.at

CommandsEnd == WF_vars(\E c \in w.cmds, ok \in BOOLEAN : CommandDone(c, ok))

-----------------------------------------------------------------------------
(* Cleanup *)

\* C11: after cleanup (TypeScript shutdown(), JavaScript cleanup()), called
\* in any reachable state, no lock-delay, unlock-delay, auto-lock or poll
\* timer of the controller is pending.
C11_CleanupSafety == [][Ran("shutdown") => w'.timers = {}]_vars

-----------------------------------------------------------------------------
(* Persisted state, bus messages, poll results *)

\* The accessory's context holds the in-memory state.
Persisted(s) ==
    s.ctxIsLocked = <<s.isLocked>> /\ s.ctxTargetState = <<s.targetState>>

\* C15: in the TypeScript controller every step that changes isLocked or
\* targetState leaves the persisted context equal to the in-memory state,
\* and from then on it stays equal.
C15_WriteBackOnEveryChange ==
    [][(/\ w.impl = "ts"
        /\ \/ w'.isLocked # w.isLocked
           \/ w'.targetState # w.targetState
           \/ Persisted(w))
       => Persisted(w')]_vars

\* A TypeScript controller has just been unlocked by a bus message and has
\* saved the new state.
C15_Witness ==
    /\ w.impl = "ts" /\ w.op = "message" /\ w.wrote
    /\ w.unlockedBy = "message" /\ w.unlockedAt = w.inputs
    /\ Persisted(w)

\* The fields a payload that is neither literal must leave alone.
Untouched(s) ==
    <<s.isLocked, s.targetState, s.ctxIsLocked, s.ctxTargetState, s.timers>>

\* C19: a bus message equal to the open literal sets isLocked and
\* targetState to unlocked, one equal to the close literal sets both to
\* locked, and any other payload, the open literal in another case
\* included, leaves state, persisted state and timers unchanged.
C19_BusMessageMapping ==
    [][Ran("message") =>
         IF w'.arg = "open" THEN ~w'.isLocked /\ ~w'.targetState
         ELSE IF w'.arg = "close" THEN w'.isLocked /\ w'.targetState
         ELSE Untouched(w') = Untouched(w)]_vars

\* A bus message with the open literal has just unlocked the lock.
C19_Witness ==
    /\ w.op = "message" /\ w.arg = "open"
    /\ ~w.isLocked /\ ~w.targetState
    /\ w.unlockedBy = "message" /\ w.unlockedAt = w.inputs
    /\ w.mqttClient = "live"

\* The token table of the claim; "none" is an unrecognised output.
PollTable(output) ==
    IF output \in {"open", "unsecured"} THEN "unlock"
    ELSE IF output \in {"closed", "secured"} THEN "lock"
    ELSE "none"

\* C20: a successful poll whose output the table maps to a value other than
\* the current state sets isLocked and targetState to it; an output the
\* table does not map changes neither.
C20_PollTokenTable ==
    [][Ran("pollDone") =>
         IF PollTable(w'.arg) = "none"
         THEN w'.isLocked = w.isLocked /\ w'.targetState = w.targetState
         ELSE Locked(PollTable(w'.arg)) # w.isLocked =>
                /\ w'.isLocked = Locked(PollTable(w'.arg))
                /\ w'.targetState = Locked(PollTable(w'.arg))]_vars

-----------------------------------------------------------------------------
(* Configuration validation: PowerLockPlatform.validateConfig (TypeScript) *)

\* A configuration value as JavaScript sees it: a field that is absent, a
\* number, or a non-empty string that is not a numeral (it converts to NaN).
Undefined == [t |-> "undefined", v |-> 0]

Number(n) == [t |-> "number", v |-> n]

NonNumber == [t |-> "string", v |-> 0]

typeof(x) == x.t

\* !x
Not(x) == x.t = "undefined" \/ (x.t = "number" /\ x.v = 0)

\* x < n and x <= n: a comparison with NaN is false.
Less(x, n) == x.t = "number" /\ x.v < n

LessEq(x, n) == x.t = "number" /\ x.v <= n

\* mqttSettings and commandSettings: <<>> is an absent block; a string field
\* that is absent or empty is "".
MqttSettingsValues ==
    {<<>>} \cup
    { <<[mqttBroker |-> b, mqttTopicSubscribe |-> s, mqttTopicPublish |-> p,
         mqttUsername |-> u, mqttPassword |-> q]>> :
      b \in {"", "broker"}, s \in {"", "topic"}, p \in {"", "topic"},
      u \in {"", "user"}, q \in {"", "secret"} }

MonitorIntervalValues == {Undefined, Number(-1), Number(0), Number(1), NonNumber}

CommandSettingsValues ==
    {<<>>} \cup
    { <<[openCommand |-> o, closeCommand |-> c, monitorCommand |-> m,
         monitorInterval |-> i]>> :
      o \in {"", "open"}, c \in {"", "close"}, m \in {"", "poll"},
      i \in MonitorIntervalValues }

\* mode with the settings block it reads; "other" is any mode that is none
\* of the three, a missing one included.
ModeSettings ==
    { <<"mqtt", m, <<>>  >> : m \in MqttSettingsValues } \cup
    { <<"command", <<>>, c>> : c \in CommandSettingsValues } \cup
    { <<"dummy", <<>>, <<>> >>, <<"other", <<>>, <<>> >> }

LockDelayValues == {Undefined, Number(-1), Number(0), Number(5), NonNumber}

UnlockDelayValues == {Undefined, Number(-1), Number(5), NonNumber}

AutoLockDelayValues == {Undefined, Number(0), Number(10), NonNumber}

\* logging: <<>> is absent.
LoggingValues == {<<>>, <<"debug">>, <<"verbose">>}

LockConfig(name, ms, lockDelay, unlockDelay, autoLock, autoLockDelay, logging) ==
    [ name |-> name, mode |-> ms[1],
      mqttSettings |-> ms[2], commandSettings |-> ms[3],
      lockDelay |-> lockDelay, unlockDelay |-> unlockDelay,
      autoLock |-> autoLock, autoLockDelay |-> autoLockDelay,
      logging |-> logging ]

LockConfigs ==
    { LockConfig("a", ms, ld, ud, al, ad, lg) :
        ms \in ModeSettings, ld \in LockDelayValues, ud \in UnlockDelayValues,
        al \in BOOLEAN, ad \in AutoLockDelayValues, lg \in LoggingValues }

\* The mode switch of validateConfig: "ok" or the error it throws.
validateMode(lockConfig) ==
    IF lockConfig.mode = "mqtt"
    THEN IF lockConfig.mqttSettings = <<>> THEN "missing mqttSettings"
         ELSE LET m == lockConfig.mqttSettings[1]
              IN  IF m.mqttBroker = "" THEN "missing mqttBroker"
                  ELSE IF m.mqttTopicSubscribe = ""
                  THEN "missing mqttTopicSubscribe"
                  ELSE IF m.mqttTopicPublish = ""
                  THEN "missing mqttTopicPublish"
                  ELSE IF \/ m.mqttUsername # "" /\ m.mqttPassword = ""
                          \/ m.mqttUsername = "" /\ m.mqttPassword # ""
                  THEN "username and password together"
                  ELSE "ok"
    ELSE IF lockConfig.mode = "command"
    THEN IF lockConfig.commandSettings = <<>> THEN "missing commandSettings"
         ELSE LET cs == lockConfig.commandSettings[1]
              IN  IF \/ cs.openCommand = "" \/ cs.closeCommand = ""
                     \/ cs.monitorCommand = "" \/ Not(cs.monitorInterval)
                  THEN "missing command fields"
                  ELSE IF LessEq(cs.monitorInterval, 0)
                  THEN "invalid monitorInterval"
                  ELSE "ok"
    ELSE IF lockConfig.mode = "dummy" THEN "ok"
    ELSE "invalid mode"

\* validateConfig(lockConfig): "ok" when it returns, else the error thrown.
validateConfig(lockConfig) ==
    IF validateMode(lockConfig) # "ok" THEN validateMode(lockConfig)
    ELSE IF /\ lockConfig.lockDelay # Undefined
            /\ (typeof(lockConfig.lockDelay) # "number"
                  \/ Less(lockConfig.lockDelay, 0))
    THEN "invalid lockDelay"
    ELSE IF /\ lockConfig.unlockDelay # Undefined
            /\ (typeof(lockConfig.unlockDelay) # "number"
                  \/ Less(lockConfig.unlockDelay, 0))
    THEN "invalid unlockDelay"
    ELSE IF /\ lockConfig.autoLock
            /\ lockConfig.autoLockDelay # Undefined
            /\ (typeof(lockConfig.autoLockDelay) # "number"
                  \/ LessEq(lockConfig.autoLockDelay, 0))
    THEN "invalid autoLockDelay"
    ELSE IF /\ lockConfig.logging # <<>>
            /\ lockConfig.logging[1] \notin {"debug", "normal", "minimal"}
    THEN "invalid logging"
    ELSE "ok"

\* One call of validateConfig on an arbitrary lock configuration.
ValidateInit ==
    \E lockConfig \in LockConfigs :
      w = [lockConfig |-> lockConfig, verdict |-> "pending"]

Validate ==
    /\ w.verdict = "pending"
    /\ w' = [w EXCEPT !.verdict = validateConfig(w.lockConfig)]

ValidateSpec == ValidateInit /\ [][Validate]_vars

\* The claim's conditions on the mode settings.
ModeAccepted(c) ==
    \/ /\ c.mode = "mqtt"
       /\ c.mqttSettings # <<>>
       /\ c.mqttSettings[1].mqttBroker # ""
       /\ c.mqttSettings[1].mqttTopicSubscribe # ""
       /\ c.mqttSettings[1].mqttTopicPublish # ""
       /\ (c.mqttSettings[1].mqttUsername # ""
             <=> c.mqttSettings[1].mqttPassword # "")
    \/ /\ c.mode = "command"
       /\ c.commandSettings # <<>>
       /\ c.commandSettings[1].openCommand # ""
       /\ c.commandSettings[1].closeCommand # ""
       /\ c.commandSettings[1].monitorCommand # ""
       /\ c.commandSettings[1].monitorInterval.t = "number"
       /\ c.commandSettings[1].monitorInterval.v > 0
    \/ c.mode = "dummy"

\* The claim's conditions on the optional fields.
OptionsAccepted(c) ==
    /\ c.lockDelay # Undefined =>
         c.lockDelay.t = "number" /\ c.lockDelay.v >= 0
    /\ c.unlockDelay # Undefined =>
         c.unlockDelay.t = "number" /\ c.unlockDelay.v >= 0
    /\ (c.autoLock /\ c.autoLockDelay # Undefined) =>
         c.autoLockDelay.t = "number" /\ c.autoLockDelay.v > 0
    /\ c.logging # <<>> => c.logging[1] \in {"debug", "normal", "minimal"}

\* C18: validateConfig accepts a lock configuration if and only if its mode
\* settings and its optional fields satisfy the conditions of the claim;
\* every other configuration raises an error.
C18_ValidationPredicate ==
    w.verdict # "pending" =>
      (w.verdict = "ok" <=> ModeAccepted(w.lockConfig) /\ OptionsAccepted(w.lockConfig))

-----------------------------------------------------------------------------
(* Registry: PowerLockPlatform of src/src/index.ts ("ts") and of           *)
(* src/unnamed/part_000 ("js").  Under RegistrySpec, w is the platform:     *)
(*   locks        the lock configurations of config.json, in order          *)
(*   accessories  this.accessories, in order                                *)
(*   controllers  every PowerLockAccessory created so far, in order of      *)
(*                creation; a controller is named by its position           *)
(*   registered   the UUIDs handed to registerPlatformAccessories           *)
(*   passes       how many discovery passes have run                        *)
(*   shut         whether the host's shutdown event has been handled        *)

\* How many locks config.json may list.
MaxLocks == 2

\* How many discovery passes a run may contain.
MaxPasses == 2

\* The names a lock configuration may carry; "" is a missing or empty name.
LockNames == {"", "a", "b"}

\* api.hap.uuid.generate(name): one UUID per name.
generate(name) == <<"uuid", name>>

\* TypeScript lock configurations: valid in each mode, and one that fails
\* validation (mqtt mode without mqttSettings).
TsRegistryModes ==
    { <<"mqtt", <<[mqttBroker |-> "broker", mqttTopicSubscribe |-> "topic",
                   mqttTopicPublish |-> "topic", mqttUsername |-> "",
                   mqttPassword |-> ""]>>, <<>> >>,
      <<"mqtt", <<>>, <<>> >>,
      <<"command", <<>>, <<[openCommand |-> "open", closeCommand |-> "close",
                            monitorCommand |-> "poll",
                            monitorInterval |-> Number(1)]>> >>,
      <<"dummy", <<>>, <<>> >> }

TsLocks ==
    { LockConfig(n, ms, Undefined, Undefined, FALSE, Undefined, <<>>) :
        n \in LockNames, ms \in TsRegistryModes }

\* JavaScript lock configurations: lockName and the settings configure reads.
JsLocks ==
    { [lockName |-> n, settings |-> c] :
        n \in LockNames,
        c \in {c \in JsConfigs :
                 ~c.autoLock /\ c.lockDelay = 0 /\ c.unlockDelay = 0} }

\* The lists of at most n elements of S.
RECURSIVE ListsUpTo(_, _)
ListsUpTo(S, n) ==
    IF n = 0 THEN {<<>>}
    ELSE ListsUpTo(S, n - 1) \cup
         {Append(l, x) : l \in {m \in ListsUpTo(S, n - 1) : Len(m) = n - 1},
                         x \in S}

\* The platform accessories Homebridge may hold in its cache: a device with
\* its UUID and its persisted context (<<>> is an empty one, <<FALSE>> is
\* isLocked = targetState = false).  instance is context.instance in the
\* TypeScript platform; in the JavaScript platform it names the
\* PowerLockAccessory that has taken the device's place in this.accessories.
\* 0 is none.
CachedAccessories ==
    { [UUID |-> generate("a"), context |-> <<>>,      instance |-> 0],
      [UUID |-> generate("a"), context |-> <<FALSE>>, instance |-> 0],
      [UUID |-> generate("b"), context |-> <<>>,      instance |-> 0] }

\* The controller's view of a validated TypeScript lock configuration.
tsControllerConfig(lockConfig) ==
    LET m  == lockConfig.mqttSettings
        cs == lockConfig.commandSettings
    IN  [ mode             |-> lockConfig.mode,
          autoLock         |-> lockConfig.autoLock,
          lockDelay        |-> IF typeof(lockConfig.lockDelay) = "number"
                               THEN lockConfig.lockDelay.v ELSE 0,
          unlockDelay      |-> IF typeof(lockConfig.unlockDelay) = "number"
                               THEN lockConfig.unlockDelay.v ELSE 0,
          mqttBrokerUrl    |-> IF m = <<>> THEN "" ELSE m[1].mqttBroker,
          mqttTopic        |-> IF m = <<>> THEN "" ELSE m[1].mqttTopicPublish,
          cmdPollInterval  |-> IF cs = <<>> THEN 0 ELSE cs[1].monitorInterval.v,
          cmdPollCommand   |-> IF cs = <<>> THEN "" ELSE cs[1].monitorCommand,
          cmdLockCommand   |-> IF cs = <<>> THEN "" ELSE cs[1].closeCommand,
          cmdUnlockCommand |-> IF cs = <<>> THEN "" ELSE cs[1].openCommand ]

\* A find that takes the first cached device, whatever its UUID.
findFirst(r, uuid) == IF r.accessories = <<>> THEN 0 ELSE 1

\* this.accessories.find(...): the first element with the UUID, 0 if none.
find(r, uuid) ==
    LET found == {k \in DOMAIN r.accessories : r.accessories[k].UUID = uuid}
    IN  IF found = {} THEN 0
        ELSE CHOOSE k \in found : \A j \in found : k <= j

\* new PowerLockAccessory(...): the controller ctl, built for uuid over a
\* cached device (with the context it found there) or over a new one.
NewController(r, uuid, cached, persisted, ctl) ==
    [r EXCEPT !.controllers =
                Append(@, [UUID |-> uuid, cached |-> cached,
                           persisted |-> persisted, ctl |-> ctl])]

\* discoverDevices, the body of the loop after validation succeeded.
tsAddLock(r, lockConfig) ==
    LET uuid == generate(lockConfig.name)
        k    == find(r, uuid)
        n    == Len(r.controllers) + 1
        cfg  == tsControllerConfig(lockConfig)
    IN  IF k # 0
        THEN [NewController(r, uuid, TRUE, r.accessories[k].context,
                            tsConstructor(cfg, r.accessories[k].context))
                EXCEPT !.accessories[k].instance = n]
        ELSE [NewController(r, uuid, FALSE, <<>>, tsConstructor(cfg, <<>>))
                EXCEPT !.registered = Append(@, uuid)]

\* catch (error) { log; continue; }: TRUE when the loop goes on.
abortAfterError(verdict) == verdict = "ok"

continueAfterError(verdict) == TRUE

\* discoverDevices: the loop over this.config.locks, from the i-th lock on.
RECURSIVE tsDiscoverFrom(_, _)
tsDiscoverFrom(r, i) ==
    IF i > Len(r.locks) THEN r
    ELSE LET verdict == validateConfig(r.locks[i])
         IN  IF verdict # "ok"
             THEN IF continueAfterError(verdict)
                  THEN tsDiscoverFrom(r, i + 1)
                  ELSE r
             ELSE tsDiscoverFrom(tsAddLock(r, r.locks[i]), i + 1)

discoverDevices(r) == tsDiscoverFrom(r, 1)

\* PowerLockPlatform.shutdown (TypeScript): the instance of every element of
\* this.accessories.
tsPlatformShutdown(r) ==
    [r EXCEPT !.controllers =
       [n \in DOMAIN r.controllers |->
          IF \E k \in DOMAIN r.accessories : r.accessories[k].instance = n
          THEN [r.controllers[n] EXCEPT !.ctl = shutdown(@, FALSE)]
          ELSE r.controllers[n]]]

\* configureAccessories, the callback of forEach.
jsAddLock(r, lockConfig) ==
    IF lockConfig.lockName = "" THEN r
    ELSE
      LET uuid == generate(lockConfig.lockName)
          k    == find(r, uuid)
          n    == Len(r.controllers) + 1
      IN  IF k # 0 /\ r.accessories[k].instance # 0
          THEN [r EXCEPT !.controllers[r.accessories[k].instance].ctl =
                           configure(@, lockConfig.settings)]
          ELSE IF k # 0
          THEN [NewController(r, uuid, TRUE, r.accessories[k].context,
                              jsConstructor(lockConfig.settings))
                  EXCEPT !.accessories[k].instance = n]
          ELSE [NewController(r, uuid, FALSE, <<>>,
                              jsConstructor(lockConfig.settings))
                  EXCEPT !.registered = Append(@, uuid),
                         !.accessories =
                            Append(@, [UUID |-> uuid, context |-> <<>>,
                                       instance |-> n])]

RECURSIVE jsConfigureFrom(_, _)
jsConfigureFrom(r, i) ==
    IF i > Len(r.locks) THEN r
    ELSE jsConfigureFrom(jsAddLock(r, r.locks[i]), i + 1)

configureAccessories(r) == jsConfigureFrom(r, 1)

\* The 'shutdown' listener of the JavaScript platform: cleanup() of every
\* element of this.accessories that has one.
jsPlatformShutdown(r) ==
    [r EXCEPT !.controllers =
       [n \in DOMAIN r.controllers |->
          IF \E k \in DOMAIN r.accessories : r.accessories[k].instance = n
          THEN [r.controllers[n] EXCEPT !.ctl = cleanup(@, FALSE)]
          ELSE r.controllers[n]]]

\* The platform after its constructor.
RegistryInit ==
    \/ \E locks \in ListsUpTo(TsLocks, MaxLocks) :
         w = [impl |-> "ts", locks |-> locks, accessories |-> <<>>,
              controllers |-> <<>>, registered |-> <<>>,
              passes |-> 0, shut |-> FALSE]
    \/ \E locks \in ListsUpTo(JsLocks, MaxLocks) :
         w = [impl |-> "js", locks |-> locks, accessories |-> <<>>,
              controllers |-> <<>>, registered |-> <<>>,
              passes |-> 0, shut |-> FALSE]

\* configureAccessory(accessory): Homebridge hands over a cached device,
\* before didFinishLaunching.
ConfigureAccessory(accessory) ==
    /\ w.passes = 0 /\ ~w.shut
    /\ find(w, accessory.UUID) = 0
    /\ w' = [w EXCEPT !.accessories = Append(@, accessory)]

\* didFinishLaunching: a discovery pass.
Discover ==
    /\ w.passes < MaxPasses /\ ~w.shut
    /\ w' = [(IF w.impl = "ts" THEN discoverDevices(w)
                               ELSE configureAccessories(w))
               EXCEPT !.passes = @ + 1]

\* The host's shutdown event.
HostShutdown ==
    /\ ~w.shut
    /\ w' = [(IF w.impl = "ts" THEN tsPlatformShutdown(w)
                               ELSE jsPlatformShutdown(w))
               EXCEPT !.shut = TRUE]

RegistryNext ==
    \/ \E accessory \in CachedAccessories : ConfigureAccessory(accessory)
    \/ Discover
    \/ HostShutdown

RegistrySpec == RegistryInit /\ [][RegistryNext]_vars

\* The lock configuration passes the registry's validation.
Valid(lockConfig) ==
    IF w.impl = "ts" THEN validateConfig(lockConfig) = "ok"
                     ELSE lockConfig.lockName # ""

\* The identifier of the lock a configuration names.
LockId(lockConfig) ==
    generate(IF w.impl = "ts" THEN lockConfig.name ELSE lockConfig.lockName)

\* The controller has a pending timer or a live bus connection.
Running(c) == c.ctl.timers # {} \/ c.ctl.mqttClient = "live"

\* C12: after the host's shutdown event no controller created during
\* discovery, over a cached device or a new one, has a pending timer, a
\* live poll interval or a live bus connection.
C12_ShutdownReachesEveryController ==
    w.shut => \A n \in DOMAIN w.controllers : ~Running(w.controllers[n])

\* C13: at most one controller exists per lock identifier, whatever the
\* discovery passes and however often the configuration lists a name.
C13_OneControllerPerLock ==
    \A m, n \in DOMAIN w.controllers :
      w.controllers[m].UUID = w.controllers[n].UUID => m = n

\* C14: a controller constructed over a cached device whose persisted state
\* is isLocked = targetState = false has both fields false and has reported
\* exactly those values to the host.
C14_PersistedStateRoundTrip ==
    \A n \in DOMAIN w.controllers :
      LET c == w.controllers[n]
      IN  (c.cached /\ c.persisted = <<FALSE>>) =>
            /\ ~c.ctl.isLocked /\ ~c.ctl.targetState
            /\ ~c.ctl.hostCurrent /\ ~c.ctl.hostTarget

\* C16: after a discovery pass every valid lock of the list has a
\* controller, whether it comes before or after an invalid one, and every
\* controller belongs to a valid lock (an invalid lock is skipped).
C16_ValidationIsolation ==
    w.passes > 0 =>
      /\ \A i \in DOMAIN w.locks :
           Valid(w.locks[i]) =>
             \E n \in DOMAIN w.controllers :
               w.controllers[n].UUID = LockId(w.locks[i])
      /\ \A n \in DOMAIN w.controllers :
           \E i \in DOMAIN w.locks :
             Valid(w.locks[i]) /\ LockId(w.locks[i]) = w.controllers[n].UUID

\* A pass has run over a list that has an invalid lock before a valid one,
\* and the valid one has its controller.
C16_Witness ==
    /\ w.passes > 0 /\ Len(w.locks) = 2
    /\ ~Valid(w.locks[1]) /\ Valid(w.locks[2])
    /\ \E n \in DOMAIN w.controllers :
         w.controllers[n].UUID = LockId(w.locks[2])

\* C17: a lock configuration without a name gets no controller and no host
\* device.
C17_NameRequired ==
    /\ \A n \in DOMAIN w.controllers : w.controllers[n].UUID # generate("")
    /\ \A n \in DOMAIN w.registered : w.registered[n] # generate("")

-----------------------------------------------------------------------------
(* Timers, stale completions, observations *)

\* Neither delay timer is pending.
NoDelayPending(s) ==
    Pending(s, "lockDelay") = {} /\ Pending(s, "unlockDelay") = {}

\* C21: in every reachable state in which neither the lock-delay nor the
\* unlock-delay timer is pending, isLocked = targetState; the states after
\* cleanup or configure cancelled a pending delay timer are among them.
C21_StateInvariant == NoDelayPending(w) => w.isLocked = w.targetState

\* The callbacks that complete something started earlier: a lock / unlock
\* command, a poll command, a publish.
Completions ==
    {"commandDone", "commandFailed", "pollDone", "pollFailed", "ack", "ackError"}

\* The state, what the host and the persisted context hold, and the timers.
Frame(s) ==
    <<s.isLocked, s.targetState, s.hostCurrent, s.hostTarget,
      s.ctxIsLocked, s.ctxTargetState, s.timers>>

\* C23: a completion that runs right after cleanup (JavaScript) or shutdown
\* (TypeScript), so of something in flight when cleanup ran, changes neither
\* isLocked nor targetState, writes nothing to the host or to the persisted
\* context and arms no timer.
C23_StaleCompletionsAreNoOps ==
    [][(w.op = "shutdown" /\ w'.op \in Completions /\ w' # w)
         => (Frame(w') = Frame(w) /\ ~w'.wrote)]_vars

TimerClasses == {"lockDelay", "unlockDelay", "autoLock", "poll"}

\* C24: for each timer class at most one scheduled callback of the
\* controller is pending at any time.
C24_SinglePendingTimerPerClass ==
    \A kind \in TimerClasses : Cardinality(Pending(w, kind)) <= 1

\* C25: at most one of the lock-delay timer and the unlock-delay timer is
\* pending.
C25_MutuallyExclusiveDelayTimers ==
    Pending(w, "lockDelay") = {} \/ Pending(w, "unlockDelay") = {}

\* What a user lock request does: the handler of the host's write of
\* LockTargetState = SECURED.
RequestPath(s) ==
    IF s.impl = "ts" THEN setTargetState(s, TRUE)
                     ELSE handleTargetStateSet(s, TRUE)

\* What can be seen of a step: the state, the host's view, the classes of
\* the pending timers, the side effects and the commands awaited.
View(s) ==
    <<s.isLocked, s.targetState, s.hostCurrent, s.hostTarget,
      {t.kind : t \in s.timers}, s.nLockFx, s.nUnlockFx, Cardinality(s.cmds)>>

\* C26: when the auto-lock timer fires, the controller does exactly what it
\* does for a user lock request: with lockDelay > 0 it sets targetState,
\* arms the lock-delay timer and leaves isLocked alone, and it performs the
\* mode's lock side effect.
C26_AutoLockThroughRequestPath ==
    [][Ran("autoLockFire") =>
         \E t \in Pending(w, "autoLock") :
           View(w') = View(RequestPath([w EXCEPT !.timers = @ \ {t}]))]_vars

\* The value a bus message or a poll output reports; "none" when it
\* reports nothing.
Observed(s) ==
    IF s.op = "message"
    THEN IF s.arg = "open" THEN "unlock"
         ELSE IF s.arg = "close" THEN "lock" ELSE "none"
    ELSE PollTable(s.arg)

\* The persisted context, the timers, the side effects and the publishes.
Quiet(s) ==
    <<s.ctxIsLocked, s.ctxTargetState, s.timers,
      s.nLockFx, s.nUnlockFx, s.acks>>

\* C28: a bus message or poll result whose value equals both isLocked and
\* targetState updates no host characteristic, writes no persisted state,
\* publishes nothing and changes no timer.
C28_RedundantObservationIsNoOp ==
    [][(/\ Ran("message") \/ Ran("pollDone")
        /\ Observed(w') # "none"
        /\ w.isLocked = Locked(Observed(w'))
        /\ w.targetState = Locked(Observed(w')))
         => (~w'.wrote /\ Quiet(w') = Quiet(w))]_vars

-----------------------------------------------------------------------------
(* Reconfiguration, teardown errors, degraded modes, transport errors *)

Held(s) ==
    {t \in s.timers :
       \/ t.kind = "poll" /\ t.id = s.pollHandle
       \/ t.kind = "autoLock" /\ t.id = s.autoLockTimeout
       \/ t.kind = "lockDelay" /\ t.id = s.lockDelayTimeout
       \/ t.kind = "unlockDelay" /\ t.id = s.unlockDelayTimeout}

\* C27: when the end of the bus connection throws during teardown, every
\* timer the controller holds a handle of is cancelled all the same.
C27_TeardownErrorsContained ==
    [][Ran("shutdownThrew") => Held(w) \cap w'.timers = {}]_vars

\* The configuration lacks what its mode needs: bus mode without broker
\* address or topic, command mode without poll command or with a poll
\* interval that is not positive.
Incomplete(config) ==
    \/ config.mode = "mqtt"
       /\ (config.mqttBrokerUrl = "" \/ config.mqttTopic = "")
    \/ config.mode = "cmd"
       /\ (config.cmdPollCommand = "" \/ config.cmdPollInterval <= 0)

\* The settings the controller was last configured with; mode is left out
\* because the degradation overwrites it.
Settings(s) ==
    <<s.cfg.mqttBrokerUrl, s.cfg.mqttTopic, s.cfg.cmdPollCommand,
      s.cfg.cmdPollInterval>>

\* The controller was configured for bus or command mode without what the
\* mode needs.
Degraded(s) ==
    /\ s.impl = "js"
    /\ \E config \in JsConfigs :
         /\ Incomplete(config)
         /\ Settings(s) = <<config.mqttBrokerUrl, config.mqttTopic,
                            config.cmdPollCommand, config.cmdPollInterval>>

\* C29: a JavaScript controller configured for bus mode without broker
\* address or topic, or for command mode without poll command or with a
\* non-positive poll interval, has no connection and no poll timer, and its
\* steps publish nothing and run no command.
C29_DegradeToStandalone ==
    [][(Degraded(w) /\ w'.op # "configure") =>
         /\ w.conns = 0 /\ Pending(w, "poll") = {}
         /\ w'.nLockFx = w.nLockFx /\ w'.nUnlockFx = w.nUnlockFx
         /\ w'.acks <= w.acks]_vars

\* The callbacks of transport errors.
TransportErrors == {"pollFailed", "busError", "busReconnect"}

\* C30: a failed poll, a bus error event and a bus reconnect event leave
\* isLocked, targetState, the persisted state and every timer, the poll
\* timer included, as they are, and report nothing to the host.
C30_TransportErrorsChangeNothing ==
    [][(w'.op \in TransportErrors /\ w' # w) =>
         (Untouched(w') = Untouched(w) /\ ~w'.wrote)]_vars

\* A poll has just failed on an unlocked lock with its auto-lock timer
\* pending, and the poll timer is still armed.
C30_Witness ==
    /\ w.op = "pollFailed" /\ ~w.isLocked
    /\ Pending(w, "poll") # {} /\ Pending(w, "autoLock") # {}

-----------------------------------------------------------------------------
(* Cached devices without a configuration *)

\* The current configuration lists a lock with this identifier.
Configured(uuid) == \E i \in DOMAIN w.locks : LockId(w.locks[i]) = uuid

\* C31: a discovery pass leaves every cached device whose name the current
\* configuration does not list in this.accessories as it was, with its
\* context and without a controller, and creates no controller (so no timer
\* and no connection) for its identifier.
C31_UnconfiguredCachedDevicesLeftAlone ==
    [][w'.passes = w.passes + 1 =>
         \A k \in DOMAIN w.accessories :
           (w.accessories[k].instance = 0
              /\ ~Configured(w.accessories[k].UUID)) =>
             /\ k \in DOMAIN w'.accessories
             /\ w'.accessories[k] = w.accessories[k]
             /\ \A n \in DOMAIN w'.controllers :
                  w'.controllers[n].UUID # w.accessories[k].UUID]_vars

\* A pass has created a controller for a configured lock and has left
\* alone a cached device the configuration does not list.
C31_Witness ==
    /\ w.passes > 0 /\ Len(w.controllers) > 0
    /\ \E k \in DOMAIN w.accessories :
         /\ w.accessories[k].instance = 0
         /\ ~Configured(w.accessories[k].UUID)
         /\ w.accessories[k].context = <<FALSE>>

-----------------------------------------------------------------------------
(* Auto-lock timer, concurrent commands and polls, host view, lifecycle *)

\* C32: whenever the auto-lock timer is pending the lock is unlocked; every
\* transition to locked cancels it.
C32_AutoLockTimerImpliesUnlocked ==
    Pending(w, "autoLock") # {} => ~w.isLocked

\* C33: in the TypeScript controller in command mode without delays, when
\* the latest user request was issued while the command of a request for the
\* opposite value was still running, then once the last command has ended
\* (in whatever order they end) isLocked has the value of the latest request.
C33_LastRequestWins ==
    ( /\ w.impl = "ts" /\ w.cfg.mode = "command"
      /\ w.cfg.lockDelay = 0 /\ w.cfg.unlockDelay = 0
      /\ w.lastReq.overlap /\ w.lastReq.at = w.inputs
      /\ w.op \in {"commandDone", "commandFailed"} /\ w.cmds = {} )
    => w.isLocked = Locked(w.lastReq.val)

\* A callback of the user's request has just set the lock to the requested
\* value.
Committed(s) ==
    /\ s.op \in UserOps /\ s.wrote
    /\ s.isLocked = Locked(s.lastReq.val)

\* C34: in command mode the result of a poll that was running when a user's
\* state change was committed does not overwrite that change.
C34_NoStalePollOverwrite ==
    [][( /\ w.cfg.mode \in {"command", "cmd"}
         /\ Committed(w) /\ w.polls > 0
         /\ Ran("pollDone") )
       => w'.isLocked = w.isLocked]_vars

\* C36: the current state last written to the host is the controller's
\* isLocked, and every step that changes isLocked writes to the host.
C36_HostViewMatchesController ==
    /\ [](w.hostCurrent = w.isLocked)
    /\ [][w'.isLocked # w.isLocked => w'.wrote]_vars

\* A poll result has just unlocked the lock, and the host has been told.
C36_Witness ==
    /\ w.op = "pollDone" /\ w.unlockedBy = "pollDone"
    /\ w.unlockedAt = w.inputs
    /\ ~w.isLocked /\ ~w.hostCurrent /\ w.wrote

\* The lifecycle operations: JavaScript cleanup() and configure(),
\* TypeScript shutdown().
LifecycleOps == {"shutdown", "shutdownThrew", "configure"}

\* C37 as stated: a lifecycle operation changes neither isLocked nor
\* targetState and writes nothing to the host.
C37_LifecyclePreservesLockState ==
    [][(w'.op \in LifecycleOps /\ w' # w) =>
         /\ w'.isLocked = w.isLocked /\ w'.targetState = w.targetState
         /\ ~w'.wrote /\ ~w'.wroteName]_vars

\* C37 as amended: a lifecycle operation changes neither isLocked nor
\* targetState and writes no lock state to the host, neither the current
\* nor the target state; configure() writes the service's Name.
C37_LifecycleWritesNoLockState ==
    [][(w'.op \in LifecycleOps /\ w' # w) =>
         /\ w'.isLocked = w.isLocked /\ w'.targetState = w.targetState
         /\ w'.hostCurrent = w.hostCurrent /\ w'.hostTarget = w.hostTarget
         /\ ~w'.wrote]_vars

\* configure() has just run on an unlocked lock with a request pending, and
\* has left the state and the host's view of it alone.
C37_Witness ==
    /\ w.op = "configure" /\ w.wroteName /\ ~w.wrote
    /\ ~w.isLocked /\ ~w.hostCurrent /\ w.targetState

-----------------------------------------------------------------------------
(* The TypeScript controller on a bus that delivers its publishes back *)
(*                                                                         *)
(* Under EchoSpec, w is                                                     *)
(*   ctl       the controller, in mqtt mode                                 *)
(*   echo      whether mqttTopicPublish = mqttTopicSubscribe and the        *)
(*             publish literals are the recognised open / close literals    *)
(*   inflight  the messages of the subscribed topic the broker has not yet  *)
(*             delivered, oldest first                                      *)
(*   sent      how many requests and external messages there have been      *)

\* How many user requests and external bus messages a run may contain.
MaxEchoSends == 3

\* What the controller published during a step from s0 to s1, as the
\* subscribed topic sees it.
Sent(s0, s1, echo) ==
    IF ~echo THEN <<>>
    ELSE IF s1.nUnlockFx > s0.nUnlockFx THEN <<"open">>
    ELSE IF s1.nLockFx > s0.nLockFx THEN <<"close">>
    ELSE <<>>

\* The controller without the counts of what it has sent so far.
Forget(s) == [s EXCEPT !.nLockFx = 0, !.nUnlockFx = 0, !.acks = 0]

\* A step of the controller from w.ctl to s1.
EchoStep(s1, queue, isSend) ==
    w' = [w EXCEPT !.ctl = Forget(Observe(w.ctl, s1)),
                   !.inflight = queue \o Sent(w.ctl, s1, w.echo),
                   !.sent = IF isSend THEN @ + 1 ELSE @]

EchoInit ==
    \E config \in TsConfigs, context \in TsContexts, echo \in BOOLEAN :
      /\ config.mode = "mqtt"
      /\ config.lockDelay = 0 /\ config.unlockDelay = 0
      /\ w = [ctl |-> tsConstructor(config, context), echo |-> echo,
              inflight |-> <<>>, sent |-> 0]

\* The host reports a user's write of the target state.
EchoRequest(value) ==
    /\ w.sent < MaxEchoSends
    /\ EchoStep(setTargetState(Begin(w.ctl, "request", Dir(value), TRUE),
                               value),
                w.inflight, TRUE)

\* Another client publishes on the subscribed topic.
EchoExternal(payload) ==
    /\ w.sent < MaxEchoSends
    /\ w' = [w EXCEPT !.inflight = Append(@, payload), !.sent = @ + 1]

\* The broker delivers the oldest message of the subscribed topic.
EchoDeliver ==
    /\ w.inflight # <<>>
    /\ EchoStep(tsOnMessage(Begin(w.ctl, "message", Head(w.inflight), FALSE),
                            Head(w.inflight)),
                Tail(w.inflight), FALSE)

\* The auto-lock timer expires.
EchoAutoLockFire(t) ==
    /\ t \in Pending(w.ctl, "autoLock")
    /\ EchoStep(tsAutoLockFire(Begin(w.ctl, "autoLockFire", "lock", FALSE), t),
                w.inflight, FALSE)

EchoNext ==
    \/ \E value \in Requests : EchoRequest(value)
    \/ \E payload \in {"open", "close"} : EchoExternal(payload)
    \/ EchoDeliver
    \/ \E t \in w.ctl.timers : EchoAutoLockFire(t)

EchoSpec == EchoInit /\ [][EchoNext]_vars

\* The broker delivers every message and the event loop runs every timer.
EchoFairSpec ==
    /\ EchoSpec
    /\ WF_vars(EchoDeliver)
    /\ WF_vars(\E t \in w.ctl.timers : EchoAutoLockFire(t))

\* C35: once the users and the other clients have stopped sending, the
\* controller publishes only finitely many further messages: from some point
\* on no message is in flight, so nothing is delivered and the state stays
\* as it is.
C35_BusEchoQuiescence == <>[](w.inflight = <<>>)

====
